---------------------------- MODULE Spec2Model ----------------------------
(***************************************************************************)
(* Two parts of QCoDeS:                                                    *)
(*                                                                         *)
(*  - qcodes/dataset/descriptions/versioning/serialization.py: the         *)
(*    version-aware (de)serialization of the RunDescriber, a set of pure   *)
(*    functions.  A behaviour of Spec is a pipeline: an input value (a     *)
(*    RunDescriber, a dict, a JSON or a YAML text) to which the module's   *)
(*    functions are applied one after the other.                           *)
(*                                                                         *)
(*  - qcodes/instrument_drivers/Keysight/keysightb1500/KeysightB1517A.py:  *)
(*    the B1517A source/monitor unit driver, a stateful object.  A         *)
(*    behaviour of DrvSpec is a sequence of calls of its methods.          *)
(***************************************************************************)
EXTENDS Integers, Sequences, FiniteSets, TLC

VARIABLES
    \* ---- serialization.py: the pipeline
    orig,      \* the input value the pipeline started from
    val,       \* the current value (the last call's return value)
    arg,       \* the value the last call was made on
    hist,      \* the calls made so far: the function, its version argument
    exc,       \* the exception the last call raised, "None" if it returned
    lookups,   \* the _converters keys the last call looked up, in order
    heap,      \* the next unused object identity
    created,   \* the number of objects the last call created
    \* ---- KeysightB1517A.py: the B1517A instance
    _source_config,      \* self._source_config
    _timing_parameters,  \* self._timing_parameters
    _measure_config,     \* self._measure_config
    call,                \* the last method called, with its arguments
    written,             \* the messages the last call passed to self.write
    raised,              \* the exception the last call raised, "None" if none
    ret,                 \* the last call's return value
    timing_set           \* history: a timing_parameters call has succeeded

ser_vars == <<orig, val, arg, hist, exc, lookups, heap, created>>
drv_vars == <<_source_config, _timing_parameters, _measure_config, call,
              written, raised, ret, timing_set>>
vars == <<orig, val, arg, hist, exc, lookups, heap, created, _source_config,
          _timing_parameters, _measure_config, call, written, raised, ret,
          timing_set>>

(***************************************************************************)
(*                         serialization.py                                *)
(***************************************************************************)

\* The longest pipeline explored.
MaxSteps == 3

STORAGE_VERSION == 0

CURRENT_VERSION_stale == STORAGE_VERSION

CURRENT_VERSION == 1

\* Python's None, where a call returns nothing or raises.
None == [kind |-> "None"]

(***************************************************************************)
(* The RunDescriber classes (v0.RunDescriber, current.RunDescriber) and    *)
(* the converters (v0_to_v1, v1_to_v0) are imported by serialization.py    *)
(* and live outside it.  They are modelled from the specification: a       *)
(* version-0 document carries `interdependencies`; a version-1 document    *)
(* carries `interdependencies` and the version-1-only `paramspecs`, which  *)
(* the downgrade drops and the upgrade fills with the empty default.       *)
(* `oid` is the object's identity: it is not part of the document's value  *)
(* and tells a returned object from a copy of it.                          *)
(***************************************************************************)
Interdeps == {<<>>, <<"x">>, <<"x", "y">>}
ParamSpecs == {<<>>, <<"x">>}

DocumentV0 == [version : {0}, interdependencies : Interdeps, oid : {0}]
DocumentV1 == [version : {1}, interdependencies : Interdeps,
               paramspecs : ParamSpecs, oid : {0}]

\* RunDescriber.__eq__ compares the documents' fields, not their identities.
Fields(desc) == [k \in DOMAIN desc \ {"oid"} |-> desc[k]]

\* RunDescriber._to_dict: the plain mapping, `version` included.
_to_dict(desc) == Fields(desc)

\* v0.RunDescriber._from_dict: a new version-0 object from a mapping.
v0_from_dict(dct, o) ==
    [version |-> 0, interdependencies |-> dct["interdependencies"], oid |-> o]

\* current.RunDescriber._from_dict: a new version-1 object from a mapping.
v1_from_dict(dct, o) ==
    [version |-> 1, interdependencies |-> dct["interdependencies"],
     paramspecs |-> dct["paramspecs"], oid |-> o]

\* The upgrade: a new version-1 object, the version-1-only field empty.
v0_to_v1(x, o) ==
    [version |-> 1, interdependencies |-> x.interdependencies,
     paramspecs |-> <<>>, oid |-> o]

\* The downgrade: a new version-0 object, the version-1-only field dropped.
v1_to_v0(x, o) ==
    [version |-> 0, interdependencies |-> x.interdependencies, oid |-> o]

(***************************************************************************)
(* _converters: keys (from_version, to_version), values the converters.    *)
(***************************************************************************)
_converters_lossy_identity ==
    (<<0, 0>> :> "lambda x: x" @@ <<0, 1>> :> "v0_to_v1" @@
     <<1, 0>> :> "v1_to_v0" @@ <<1, 1>> :> "v1_to_v0_to_v1")

_converters_no_downgrade ==
    (<<0, 0>> :> "lambda x: x" @@ <<0, 1>> :> "v0_to_v1" @@
     <<1, 0>> :> "lambda x: x" @@ <<1, 1>> :> "lambda x: x")

_converters_no_upgrade ==
    (<<0, 0>> :> "lambda x: x" @@ <<1, 0>> :> "v1_to_v0" @@
     <<1, 1>> :> "lambda x: x")

_converters_copying_identity ==
    (<<0, 0>> :> "copy" @@ <<0, 1>> :> "v0_to_v1" @@
     <<1, 0>> :> "v1_to_v0" @@ <<1, 1>> :> "copy")

_converters ==
    (<<0, 0>> :> "lambda x: x" @@ <<0, 1>> :> "v0_to_v1" @@
     <<1, 0>> :> "v1_to_v0" @@ <<1, 1>> :> "lambda x: x")

\* Calling a converter of the table on document x; o is the identity a
\* new object gets.  (The last two are the converters of the faulty tables
\* above: a lossy round trip and a copy.)
Apply(converter, x, o) ==
    CASE converter = "lambda x: x" -> x
      [] converter = "v0_to_v1" -> v0_to_v1(x, o)
      [] converter = "v1_to_v0" -> v1_to_v0(x, o)
      [] converter = "v1_to_v0_to_v1" -> v0_to_v1(v1_to_v0(x, o), o)
      [] converter = "copy" -> [x EXCEPT !.oid = o]

\* What a call gives back: the exception it raised ("None": it returned),
\* its return value, the _converters keys it looked up, and the next unused
\* object identity.
Returned(value, keys, h) ==
    [exc |-> "None", ret |-> value, lookups |-> keys, heap |-> h]
Raised(e, keys, h) ==
    [exc |-> e, ret |-> None, lookups |-> keys, heap |-> h]

Convert_with_default(key, desc, keys, h) ==
    LET out == Apply(IF key \in DOMAIN _converters THEN _converters[key]
                     ELSE "lambda x: x", desc, h)
    IN  Returned(out, Append(keys, key), IF out.oid = h THEN h + 1 ELSE h)

\* _converters[key](desc): a missing key raises KeyError, and the converter
\* is not called.
Convert(key, desc, keys, h) ==
    IF key \in DOMAIN _converters
    THEN LET out == Apply(_converters[key], desc, h)
         IN  Returned(out, Append(keys, key),
                      IF out.oid = h THEN h + 1 ELSE h)
    ELSE Raised("KeyError", Append(keys, key), h)

\* A call that returned `value` after the call `out` returned; an
\* exception of `out` passes through.
Then(out, value) ==
    IF out.exc # "None" THEN out ELSE [out EXCEPT !.ret = value]

from_dict_to_native_lenient(dct, h) ==
    IF dct["version"] = 0
    THEN Returned(v0_from_dict(dct, h), <<>>, h + 1)
    ELSE Returned(v1_from_dict(
                      [k \in DOMAIN dct \cup {"paramspecs"} |->
                          IF k \in DOMAIN dct THEN dct[k] ELSE <<>>], h),
                  <<>>, h + 1)

from_dict_to_native(dct, h) ==
    LET dct_version == dct["version"]
    IN  IF dct_version = 0
        THEN Returned(v0_from_dict(dct, h), <<>>, h + 1)
        ELSE IF dct_version = 1
        THEN Returned(v1_from_dict(dct, h), <<>>, h + 1)
        ELSE Raised("RuntimeError", <<>>, h)

from_dict_to_current(dct, h) ==
    LET desc == from_dict_to_native(dct, h)
    IN  IF desc.exc # "None" THEN desc
        ELSE Convert(<<desc.ret.version, CURRENT_VERSION>>, desc.ret,
                     desc.lookups, desc.heap)

to_dict_as_version(desc, version, h) ==
    LET out == Convert(<<desc.version, version>>, desc, <<>>, h)
    IN  Then(out, _to_dict(out.ret))

to_dict_for_storage(desc, h) == to_dict_as_version(desc, STORAGE_VERSION, h)


(***************************************************************************)
(* The text formats.  A text is a sequence of tokens (JSON) or of lines of *)
(* tokens (YAML); a number is written in decimal digits and read back from *)
(* them.  The parsers below read the texts the encoders write (a mapping   *)
(* of keys to a number or to a list of strings); they do not model the     *)
(* parse errors of malformed text.                                         *)
(***************************************************************************)
Punct(c) == [t |-> "punct", v |-> c]
String(s) == [t |-> "string", v |-> s]
Digit(c) == [t |-> "digit", v |-> c]

DigitChars == <<"0", "1", "2", "3", "4", "5", "6", "7", "8", "9">>
DigitValue(c) == (CHOOSE i \in 1..10 : DigitChars[i] = c) - 1

\* The decimal digits of a natural number, most significant first.
RECURSIVE EncodeNat(_)
EncodeNat(n) ==
    IF n < 10 THEN <<Digit(DigitChars[n + 1])>>
    ELSE EncodeNat(n \div 10) \o <<Digit(DigitChars[(n % 10) + 1])>>

\* A dict's keys in insertion order: the order _to_dict and the parsers
\* insert them in.
KeyOrder == <<"version", "interdependencies", "paramspecs">>
Keys(dct) ==
    LET Present(k) == k \in DOMAIN dct IN SelectSeq(KeyOrder, Present)

RECURSIVE JoinStrings(_)
JoinStrings(list) ==
    IF list = <<>> THEN <<>>
    ELSE IF Len(list) = 1 THEN <<String(list[1])>>
    ELSE <<String(list[1]), Punct(",")>> \o JoinStrings(Tail(list))

\* A value as JSON: `version` is a number, the other values are lists of
\* strings.
JsonValue(k, value) ==
    IF k = "version" THEN EncodeNat(value)
    ELSE <<Punct("[")>> \o JoinStrings(value) \o <<Punct("]")>>

RECURSIVE JsonMembers(_, _)
JsonMembers(dct, keys) ==
    IF keys = <<>> THEN <<>>
    ELSE <<String(keys[1]), Punct(":")>> \o JsonValue(keys[1], dct[keys[1]])
         \o (IF Len(keys) = 1 THEN <<>> ELSE <<Punct(",")>>)
         \o JsonMembers(dct, Tail(keys))

\* json.dumps of a mapping.
json_dumps(dct) ==
    <<Punct("{")>> \o JsonMembers(dct, Keys(dct)) \o <<Punct("}")>>

\* Reading a number at position i: [value, next].
RECURSIVE ReadNat(_, _, _)
ReadNat(text, i, acc) ==
    IF i <= Len(text) /\ text[i].t = "digit"
    THEN ReadNat(text, i + 1, acc * 10 + DigitValue(text[i].v))
    ELSE [value |-> acc, next |-> i]

\* Reading a list's elements after its "[": [value, next].
RECURSIVE ReadList(_, _, _)
ReadList(text, i, acc) ==
    IF text[i] = Punct("]") THEN [value |-> acc, next |-> i + 1]
    ELSE IF text[i] = Punct(",") THEN ReadList(text, i + 1, acc)
    ELSE ReadList(text, i + 1, Append(acc, text[i].v))

ReadValue(text, i) ==
    IF text[i].t = "digit" THEN ReadNat(text, i, 0)
    ELSE ReadList(text, i + 1, <<>>)

\* Reading an object's members after its "{": the dict.
RECURSIVE ReadMembers(_, _, _)
ReadMembers(text, i, acc) ==
    IF text[i] = Punct("}") THEN acc
    ELSE IF text[i] = Punct(",") THEN ReadMembers(text, i + 1, acc)
    ELSE LET value == ReadValue(text, i + 2)
         IN  ReadMembers(text, value.next,
                         (text[i].v :> value.value) @@ acc)

\* json.loads of an object.
json_loads(json_str) == ReadMembers(json_str, 2, <<>>)

\* A value as YAML (block style): the lines of key k.
RECURSIVE YamlItems(_)
YamlItems(list) ==
    IF list = <<>> THEN <<>>
    ELSE << <<Punct("-"), String(list[1])>> >> \o YamlItems(Tail(list))

YamlEntry(k, value) ==
    IF k = "version"
    THEN << <<String(k), Punct(":")>> \o EncodeNat(value) >>
    ELSE IF value = <<>>
    THEN << <<String(k), Punct(":"), Punct("[]")>> >>
    ELSE << <<String(k), Punct(":")>> >> \o YamlItems(value)

RECURSIVE YamlEntries(_, _)
YamlEntries(dct, keys) ==
    IF keys = <<>> THEN <<>>
    ELSE YamlEntry(keys[1], dct[keys[1]]) \o YamlEntries(dct, Tail(keys))

\* YAML().dump of a mapping, as the stream's value.
yaml_dump(dct) == YamlEntries(dct, Keys(dct))

\* YAML().load: the ordered mapping, a sequence of <<key, value>> items.
RECURSIVE ReadLines(_, _, _)
ReadLines(text, i, acc) ==
    IF i > Len(text) THEN acc
    ELSE LET line == text[i]
             n == Len(acc)
         IN  IF line[1] = Punct("-")
             THEN ReadLines(text, i + 1,
                      [acc EXCEPT ![n] = <<acc[n][1],
                                           Append(acc[n][2], line[2].v)>>])
             ELSE IF Len(line) > 2 /\ line[3].t = "digit"
             THEN ReadLines(text, i + 1,
                      Append(acc, <<line[1].v, ReadNat(line, 3, 0).value>>))
             ELSE ReadLines(text, i + 1, Append(acc, <<line[1].v, <<>> >>))

yaml_load(yaml_str) == ReadLines(yaml_str, 1, <<>>)

\* dict(ordered mapping): the plain dict of its items.
dict(items) ==
    [k \in {items[i][1] : i \in DOMAIN items} |->
        items[CHOOSE i \in DOMAIN items :
                 /\ items[i][1] = k
                 /\ \A j \in DOMAIN items : items[j][1] = k => j <= i][2]]

to_json_for_storage(desc, h) ==
    LET out == to_dict_for_storage(desc, h)
    IN  Then(out, json_dumps(out.ret))

to_json_as_version(desc, version, h) ==
    LET out == to_dict_as_version(desc, version, h)
    IN  Then(out, json_dumps(out.ret))

from_json_to_current(json_str, h) ==
    from_dict_to_current(json_loads(json_str), h)

from_json_to_native(json_str, h) ==
    from_dict_to_native(json_loads(json_str), h)

to_yaml_for_storage_as_current(desc, h) ==
    LET out == to_dict_as_version(desc, CURRENT_VERSION, h)
    IN  Then(out, yaml_dump(out.ret))

to_yaml_for_storage(desc, h) ==
    LET out == to_dict_for_storage(desc, h)
    IN  Then(out, yaml_dump(out.ret))

from_yaml_to_current(yaml_str, h) ==
    LET ser == dict(yaml_load(yaml_str))
    IN  from_dict_to_current(ser, h)

(***************************************************************************)
(* The pipeline.  The inputs: a RunDescriber of either version built by    *)
(* its owner, or stored data (a dict, a JSON text, a YAML text) of a       *)
(* registered or of an unknown version.                                    *)
(***************************************************************************)
UnknownVersions == {2, 999}
\* The version arguments of to_dict_as_version and to_json_as_version.
TargetVersions == {0, 1, 2}

Documents == DocumentV0 \cup DocumentV1
KnownDicts == {_to_dict(desc) : desc \in Documents}
UnknownDicts ==
    [version : UnknownVersions, interdependencies : Interdeps]
    \cup [version : UnknownVersions, interdependencies : {<<"x">>},
          paramspecs : ParamSpecs]
Dicts == KnownDicts \cup UnknownDicts

Value(kind, v) == [kind |-> kind, v |-> v]

Inputs ==
    {Value("desc", desc) : desc \in Documents}
    \cup {Value("dict", dct) : dct \in Dicts}
    \cup {Value("json", json_dumps(dct)) : dct \in Dicts}
    \cup {Value("yaml", yaml_dump(dct)) : dct \in Dicts}

\* The B1517A instance after __init__.
DrvInit ==
    /\ _measure_config = [measure_range |-> None]
    /\ _source_config = [output_range |-> None, compliance |-> None,
                         compl_polarity |-> None,
                         min_compliance_range |-> None]
    /\ _timing_parameters = [h_bias |-> None, interval |-> None,
                             number |-> None, h_base |-> None]
    /\ call = [name |-> "__init__"]
    /\ written = <<>>
    /\ raised = "None"
    /\ ret = None
    /\ timing_set = FALSE

SerInit ==
    /\ orig \in Inputs
    /\ val = orig
    /\ arg = None
    /\ hist = <<>>
    /\ exc = "None"
    /\ lookups = <<>>
    /\ heap = 1
    /\ created = 0

Init == SerInit /\ DrvInit

\* A call of the pipeline: `out` is what it gives back, `kind` the kind of
\* value it returns.
Call(entry, out, kind) ==
    /\ arg' = val
    /\ hist' = Append(hist, entry)
    /\ exc' = out.exc
    /\ val' = IF out.exc = "None" THEN Value(kind, out.ret) ELSE None
    /\ lookups' = out.lookups
    /\ heap' = out.heap
    /\ created' = out.heap - heap
    /\ UNCHANGED <<orig, drv_vars>>

\* A call can be made on a value of kind `kind`: the pipeline has not
\* ended in an exception and is not at its bound.
Ready(kind) == Len(hist) < MaxSteps /\ exc = "None" /\ val.kind = kind

FromDictToNative ==
    /\ Ready("dict")
    /\ Call([fn |-> "from_dict_to_native"],
            from_dict_to_native(val.v, heap), "desc")

FromDictToCurrent ==
    /\ Ready("dict")
    /\ Call([fn |-> "from_dict_to_current"],
            from_dict_to_current(val.v, heap), "desc")

ToDictAsVersion ==
    /\ Ready("desc")
    /\ \E version \in TargetVersions :
          Call([fn |-> "to_dict_as_version", version |-> version],
               to_dict_as_version(val.v, version, heap), "dict")

ToDictForStorage ==
    /\ Ready("desc")
    /\ Call([fn |-> "to_dict_for_storage"],
            to_dict_for_storage(val.v, heap), "dict")

ToJsonForStorage ==
    /\ Ready("desc")
    /\ Call([fn |-> "to_json_for_storage"],
            to_json_for_storage(val.v, heap), "json")

ToJsonAsVersion ==
    /\ Ready("desc")
    /\ \E version \in TargetVersions :
          Call([fn |-> "to_json_as_version", version |-> version],
               to_json_as_version(val.v, version, heap), "json")

FromJsonToCurrent ==
    /\ Ready("json")
    /\ Call([fn |-> "from_json_to_current"],
            from_json_to_current(val.v, heap), "desc")

FromJsonToNative ==
    /\ Ready("json")
    /\ Call([fn |-> "from_json_to_native"],
            from_json_to_native(val.v, heap), "desc")

ToYamlForStorage ==
    /\ Ready("desc")
    /\ Call([fn |-> "to_yaml_for_storage"],
            to_yaml_for_storage(val.v, heap), "yaml")

FromYamlToCurrent ==
    /\ Ready("yaml")
    /\ Call([fn |-> "from_yaml_to_current"],
            from_yaml_to_current(val.v, heap), "desc")

Next ==
    \/ FromDictToNative
    \/ FromDictToCurrent
    \/ ToDictAsVersion
    \/ ToDictForStorage
    \/ ToJsonForStorage
    \/ ToJsonAsVersion
    \/ FromJsonToCurrent
    \/ FromJsonToNative
    \/ ToYamlForStorage
    \/ FromYamlToCurrent

Spec == Init /\ [][Next]_vars

(***************************************************************************)
(*                          KeysightB1517A.py                              *)
(*                                                                         *)
(* Python values are tagged with their type.  Times are counted in units   *)
(* of 0.0001 s, the resolution of the interval's lower limit, so that the  *)
(* interval validator's limits 0.0001 and 65.535 are whole numbers.        *)
(***************************************************************************)
IntervalMin == 1
IntervalMax == 655350

Float(n) == [kind |-> "float", value |-> n]
PyInt(n) == [kind |-> "int", value |-> n]
Enum(cls, name) == [kind |-> cls, name |-> name]

\* constants.VOutputRange and constants.IOutputRange: two distinct
\* enumerations, each with an AUTO member.
VOutputRange == {Enum("VOutputRange", "AUTO"), Enum("VOutputRange", "MIN_2V")}
IOutputRange == {Enum("IOutputRange", "AUTO"), Enum("IOutputRange", "MIN_1nA")}
OutputRange == VOutputRange \cup IOutputRange

isinstance(x, cls) == x.kind = cls
type(x) == x.kind

\* The arguments the methods are called with.
ForcedValues == {Float(0), Float(1)}
Compliances == {None, Float(1)}
CompliancePolarityModes == {None, Enum("CompliancePolarityMode", "AUTO")}
MinComplianceRanges ==
    {None, Enum("VOutputRange", "AUTO"), Enum("IOutputRange", "AUTO")}
MeasureRanges == {Enum("VMeasureRange", "AUTO"), Enum("IMeasureRange", "AUTO")}
HBiases == {Float(0)}
Intervals == {0, IntervalMin, 20, IntervalMax, IntervalMax + 1}
Numbers == {0, 1, 3}
HBases == {None, Float(0)}
Modes == {Enum("MM.Mode", "SPOT"), Enum("MM.Mode", "SAMPLING")}

\* self.channels[0]
chnum == Enum("ChNr", "SLOT_01_CH1")

\* A call's outcome: the instance's attributes the call does not assign
\* stay as they are.
Outcome(c, msgs, e, value) ==
    /\ call' = c
    /\ written' = msgs
    /\ raised' = e
    /\ ret' = value
    /\ UNCHANGED ser_vars

\* _interval_validator.validate: Numbers(0.0001, 65.535).
interval_valid_unchecked(interval) == TRUE

interval_valid(interval) == IntervalMin <= interval /\ interval <= IntervalMax

\* np.arange(start, stop, step) for a positive step.
arange(start, stop, step) ==
    LET n == (stop - start + step - 1) \div step
    IN  [i \in 1..(IF n > 0 THEN n ELSE 0) |-> start + (i - 1) * step]

_set_voltage_unchecked(value) ==
    LET output_range ==
            IF _source_config.output_range = None
            THEN Enum("VOutputRange", "AUTO")
            ELSE _source_config.output_range
    IN  /\ _source_config' =
               [_source_config EXCEPT !.output_range = output_range]
        /\ Outcome([name |-> "_set_voltage", value |-> value],
              << [cmd |-> "DV", chnum |-> chnum, v_range |-> output_range,
                  voltage |-> value,
                  i_comp |-> _source_config.compliance,
                  comp_polarity |-> _source_config.compl_polarity,
                  i_range |-> _source_config.min_compliance_range] >>,
              "None", None)
        /\ UNCHANGED <<_timing_parameters, _measure_config, timing_set>>

_set_voltage(value) ==
    LET output_range ==
            IF _source_config.output_range = None
            THEN Enum("VOutputRange", "AUTO")
            ELSE _source_config.output_range
    IN  /\ _source_config' =
               [_source_config EXCEPT !.output_range = output_range]
        /\ IF ~isinstance(output_range, "VOutputRange")
           THEN Outcome([name |-> "_set_voltage", value |-> value],
                        <<>>, "TypeError", None)
           ELSE Outcome([name |-> "_set_voltage", value |-> value],
                  << [cmd |-> "DV", chnum |-> chnum, v_range |-> output_range,
                      voltage |-> value,
                      i_comp |-> _source_config.compliance,
                      comp_polarity |-> _source_config.compl_polarity,
                      i_range |-> _source_config.min_compliance_range] >>,
                  "None", None)
        /\ UNCHANGED <<_timing_parameters, _measure_config, timing_set>>

_set_current(value) ==
    LET output_range ==
            IF _source_config.output_range = None
            THEN Enum("IOutputRange", "AUTO")
            ELSE _source_config.output_range
    IN  /\ _source_config' =
               [_source_config EXCEPT !.output_range = output_range]
        /\ IF ~isinstance(output_range, "IOutputRange")
           THEN Outcome([name |-> "_set_current", value |-> value],
                        <<>>, "TypeError", None)
           ELSE Outcome([name |-> "_set_current", value |-> value],
                  << [cmd |-> "DI", chnum |-> chnum, i_range |-> output_range,
                      current |-> value,
                      v_comp |-> _source_config.compliance,
                      comp_polarity |-> _source_config.compl_polarity,
                      v_range |-> _source_config.min_compliance_range] >>,
                  "None", None)
        /\ UNCHANGED <<_timing_parameters, _measure_config, timing_set>>

source_config(output_range, compliance, compl_polarity, min_compliance_range) ==
    LET c == [name |-> "source_config", output_range |-> output_range,
              compliance |-> compliance, compl_polarity |-> compl_polarity,
              min_compliance_range |-> min_compliance_range]
    IN  IF /\ min_compliance_range # None
           /\ isinstance(min_compliance_range, type(output_range))
        THEN /\ Outcome(c, <<>>, "TypeError", None)
             /\ UNCHANGED <<_source_config, _timing_parameters,
                            _measure_config, timing_set>>
        ELSE /\ _source_config' =
                    [output_range |-> output_range,
                     compliance |-> compliance,
                     compl_polarity |-> compl_polarity,
                     min_compliance_range |-> min_compliance_range]
             /\ Outcome(c, <<>>, "None", None)
             /\ UNCHANGED <<_timing_parameters, _measure_config, timing_set>>

measure_config(measure_range) ==
    /\ _measure_config' = [measure_range |-> measure_range]
    /\ Outcome([name |-> "measure_config", measure_range |-> measure_range],
               <<>>, "None", None)
    /\ UNCHANGED <<_source_config, _timing_parameters, timing_set>>

timing_parameters(h_bias, interval, number, h_base) ==
    LET c == [name |-> "timing_parameters", h_bias |-> h_bias,
              interval |-> Float(interval), number |-> PyInt(number),
              h_base |-> h_base]
    IN  IF ~interval_valid(interval)
        THEN /\ Outcome(c, <<>>, "ValueError", None)
             /\ UNCHANGED <<_source_config, _timing_parameters,
                            _measure_config, timing_set>>
        ELSE /\ _timing_parameters' =
                    [h_bias |-> h_bias, interval |-> Float(interval),
                     number |-> PyInt(number), h_base |-> h_base]
             /\ Outcome(c,
                   << [cmd |-> "MT", h_bias |-> h_bias,
                       interval |-> Float(interval),
                       number |-> PyInt(number), h_base |-> h_base] >>,
                   "None", None)
             /\ timing_set' = TRUE
             /\ UNCHANGED <<_source_config, _measure_config>>

\* The exception of the getters on unset timing parameters.
NotSetError == "Exception: set timing parameters first"

_get_number_of_samples ==
    /\ IF _timing_parameters.number # None
       THEN Outcome([name |-> "_get_number_of_samples"], <<>>, "None",
                    _timing_parameters.number)
       ELSE Outcome([name |-> "_get_number_of_samples"], <<>>,
                    NotSetError, None)
    /\ UNCHANGED <<_source_config, _timing_parameters, _measure_config,
                   timing_set>>

\* The body of _total_measurement_time: [raised, ret].
total_measurement_time ==
    IF _timing_parameters.interval = None \/ _timing_parameters.number = None
    THEN [raised |-> NotSetError, ret |-> None]
    ELSE [raised |-> "None",
          ret |-> Float(_timing_parameters.interval.value
                        * _timing_parameters.number.value)]

_total_measurement_time ==
    /\ Outcome([name |-> "_total_measurement_time"], <<>>,
               total_measurement_time.raised, total_measurement_time.ret)
    /\ UNCHANGED <<_source_config, _timing_parameters, _measure_config,
                   timing_set>>

_get_time_axis ==
    LET sample_rate == _timing_parameters.interval
        total_time == total_measurement_time
    IN  /\ IF total_time.raised # "None"
           THEN Outcome([name |-> "_get_time_axis"], <<>>,
                        total_time.raised, None)
           ELSE Outcome([name |-> "_get_time_axis"], <<>>, "None",
                        [kind |-> "ndarray",
                         value |-> arange(0, total_time.ret.value,
                                          sample_rate.value)])
        /\ UNCHANGED <<_source_config, _timing_parameters, _measure_config,
                       timing_set>>

_set_measurement_mode(mode) ==
    /\ Outcome([name |-> "_set_measurement_mode", mode |-> mode],
               << [cmd |-> "MM", mode |-> mode, channels |-> <<chnum>>] >>,
               "None", None)
    /\ UNCHANGED <<_source_config, _timing_parameters, _measure_config,
                   timing_set>>

use_high_speed_adc ==
    /\ Outcome([name |-> "use_high_speed_adc"],
               << [cmd |-> "AAD", chnum |-> chnum,
                   adc_type |-> Enum("AAD.Type", "HIGH_SPEED")] >>,
               "None", None)
    /\ UNCHANGED <<_source_config, _timing_parameters, _measure_config,
                   timing_set>>

use_high_resolution_adc ==
    /\ Outcome([name |-> "use_high_resolution_adc"],
               << [cmd |-> "AAD", chnum |-> chnum,
                   adc_type |-> Enum("AAD.Type", "HIGH_RESOLUTION")] >>,
               "None", None)
    /\ UNCHANGED <<_source_config, _timing_parameters, _measure_config,
                   timing_set>>

SetVoltage == \E value \in ForcedValues : _set_voltage(value)

SetCurrent == \E value \in ForcedValues : _set_current(value)

SourceConfig ==
    \E output_range \in OutputRange, compliance \in Compliances,
       compl_polarity \in CompliancePolarityModes,
       min_compliance_range \in MinComplianceRanges :
        source_config(output_range, compliance, compl_polarity,
                      min_compliance_range)

MeasureConfig == \E measure_range \in MeasureRanges : measure_config(measure_range)

TimingParameters ==
    \E h_bias \in HBiases, interval \in Intervals, number \in Numbers,
       h_base \in HBases :
        timing_parameters(h_bias, interval, number, h_base)

SetMeasurementMode == \E mode \in Modes : _set_measurement_mode(mode)

DrvNext ==
    \/ SetVoltage
    \/ SetCurrent
    \/ SourceConfig
    \/ MeasureConfig
    \/ TimingParameters
    \/ _get_number_of_samples
    \/ _total_measurement_time
    \/ _get_time_axis
    \/ SetMeasurementMode
    \/ use_high_speed_adc
    \/ use_high_resolution_adc

\* The pipeline at rest while the driver runs.
SerIdle ==
    /\ orig = None
    /\ val = None
    /\ arg = None
    /\ hist = <<>>
    /\ exc = "None"
    /\ lookups = <<>>
    /\ heap = 1
    /\ created = 0

DrvSpecInit == SerIdle /\ DrvInit

DrvSpec == DrvSpecInit /\ [][DrvNext]_vars

(***************************************************************************)
(*                  The claims about serialization.py                      *)
(***************************************************************************)
Last == hist[Len(hist)]

\* A dict as the pipeline holds it in a value of the given kind.
Encoded(kind, dct) ==
    CASE kind = "dict" -> dct
      [] kind = "json" -> json_dumps(dct)
      [] kind = "yaml" -> yaml_dump(dct)

\* The last call was one of `fns`, made on one of `dcts` (or its text).
LastCallOn(fns, dcts) ==
    /\ hist # <<>>
    /\ Last.fn \in fns
    /\ \E dct \in dcts : arg.v = Encoded(arg.kind, dct)

\* The calls made so far are the first ones of `chain`.
Began(chain) ==
    /\ hist # <<>>
    /\ Len(hist) <= Len(chain)
    /\ hist = SubSeq(chain, 1, Len(hist))

\* C1: a mapping whose `version` is not a registered version (not 0 or 1)
\* makes from_dict_to_native raise its unknown-version error (RuntimeError)
\* and return no document; from_dict_to_current, from_json_to_native,
\* from_json_to_current and from_yaml_to_current raise the same error, and
\* none of them looks up or calls a converter before it.
C1_UnknownVersionRaises ==
    LastCallOn({"from_dict_to_native", "from_dict_to_current",
                "from_json_to_native", "from_json_to_current",
                "from_yaml_to_current"}, UnknownDicts)
    => /\ exc = "RuntimeError"
       /\ val = None
       /\ lookups = <<>>
       /\ created = 0

C1_Witness ==
    /\ LastCallOn({"from_yaml_to_current"},
                  {dct \in UnknownDicts : dct["version"] = 999})
    /\ exc = "RuntimeError"

\* C2: for a document of a registered version and a target version such
\* that (document version, target) is not a key of _converters,
\* to_dict_as_version and to_json_as_version raise the missing-converter
\* error (KeyError), return nothing, and call no converter: the document is
\* not passed through unconverted.
C2_UnregisteredPairRaises ==
    (/\ hist # <<>>
     /\ Last.fn \in {"to_dict_as_version", "to_json_as_version"}
     /\ arg.v.version \in {0, 1}
     /\ <<arg.v.version, Last.version>> \notin {0, 1} \X {0, 1})
    => /\ exc = "KeyError"
       /\ val = None
       /\ created = 0

C2_Witness ==
    /\ hist # <<>>
    /\ Last.fn = "to_json_as_version"
    /\ arg.v.version = 1
    /\ Last.version = 2
    /\ exc = "KeyError"

\* C3: a mapping whose `version` is 0 or 1 makes from_dict_to_current
\* return a document of version CURRENT_VERSION, which is 1: the one lookup
\* it makes, of (native version, CURRENT_VERSION), does not fail.  The same
\* holds of from_json_to_current and from_yaml_to_current on the text of
\* such a mapping.
C3_ToCurrentSucceeds ==
    LastCallOn({"from_dict_to_current", "from_json_to_current",
                "from_yaml_to_current"}, KnownDicts)
    => /\ exc = "None"
       /\ val.kind = "desc"
       /\ val.v.version = CURRENT_VERSION
       /\ val.v.version = 1
       /\ \E dct \in KnownDicts :
             /\ arg.v = Encoded(arg.kind, dct)
             /\ lookups = << <<dct["version"], 1>> >>

C3_Witness ==
    /\ LastCallOn({"from_yaml_to_current"},
                  {dct \in KnownDicts : dct["version"] = 0})
    /\ exc = "None"
    /\ val.v.version = 1

\* C4: for a document of version 0 or 1, to_dict_for_storage returns a
\* mapping whose `version` is STORAGE_VERSION, which is 0;
\* to_json_for_storage and to_yaml_for_storage return the text of exactly
\* that mapping; and to_dict_as_version(doc, t) for a registered pair
\* returns a mapping whose `version` is t.
C4_StorageVersion ==
    (hist # <<>> /\ arg.kind = "desc" /\ arg.v.version \in {0, 1})
    => /\ Last.fn = "to_dict_for_storage"
          => /\ exc = "None"
             /\ val.v["version"] = STORAGE_VERSION
             /\ val.v["version"] = 0
       /\ Last.fn = "to_json_for_storage"
          => /\ exc = "None"
             /\ json_loads(val.v)["version"] = 0
             /\ json_loads(val.v) = to_dict_for_storage(arg.v, heap).ret
       /\ Last.fn = "to_yaml_for_storage"
          => /\ exc = "None"
             /\ dict(yaml_load(val.v))["version"] = 0
             /\ dict(yaml_load(val.v)) = to_dict_for_storage(arg.v, heap).ret
       /\ (Last.fn = "to_dict_as_version" /\ Last.version \in {0, 1})
          => /\ exc = "None"
             /\ val.v["version"] = Last.version

C4_Witness ==
    /\ hist # <<>>
    /\ Last.fn = "to_yaml_for_storage"
    /\ arg.v.version = 1
    /\ arg.v.paramspecs # <<>>
    /\ exc = "None"

\* C5: the identity round trip.  For a document doc of version v (0 or 1),
\* from_dict_to_native(doc._to_dict()) is a document of version v, and
\* to_dict_as_version of it at version v is a mapping equal to
\* doc._to_dict().
C5_IdentityRoundTrip ==
    (orig.kind = "dict" /\ orig.v \in KnownDicts)
    => /\ Began(<<[fn |-> "from_dict_to_native"]>>)
          => /\ exc = "None"
             /\ val.v.version = orig.v["version"]
       /\ Began(<<[fn |-> "from_dict_to_native"],
                  [fn |-> "to_dict_as_version",
                   version |-> orig.v["version"]]>>)
          => /\ exc = "None"
             /\ Len(hist) = 2 => val.v = orig.v

C5_Witness ==
    /\ orig.kind = "dict"
    /\ orig.v \in KnownDicts
    /\ orig.v["version"] = 1
    /\ orig.v["paramspecs"] # <<>>
    /\ hist = <<[fn |-> "from_dict_to_native"],
                [fn |-> "to_dict_as_version", version |-> 1]>>
    /\ val.v = orig.v

\* C6: for every key (a, b) of _converters, a document of version a taken
\* to version b (to_dict_as_version), read back (from_dict_to_native) and
\* taken to version a again raises nothing and comes out at version a; it
\* comes out equal to the original when both steps are lossless (b = a).
\* And a version-1 document written with to_dict_as_version(doc, 0) and read
\* with from_dict_to_current is a version-1 document again.
C6_ThereAndBack ==
    (orig.kind = "desc" /\ orig.v.version \in {0, 1})
    => /\ \A b \in {0, 1} :
             Began(<<[fn |-> "to_dict_as_version", version |-> b],
                     [fn |-> "from_dict_to_native"],
                     [fn |-> "to_dict_as_version",
                      version |-> orig.v.version]>>)
             => /\ exc = "None"
                /\ Len(hist) = 3 => val.v["version"] = orig.v.version
                /\ (Len(hist) = 3 /\ b = orig.v.version)
                   => val.v = _to_dict(orig.v)
       /\ (/\ orig.v.version = 1
           /\ Began(<<[fn |-> "to_dict_as_version", version |-> 0],
                      [fn |-> "from_dict_to_current"]>>))
          => /\ exc = "None"
             /\ Len(hist) = 2 => val.v.version = 1

C6_Witness ==
    /\ orig.kind = "desc"
    /\ orig.v.version = 1
    /\ orig.v.paramspecs # <<>>
    /\ hist = <<[fn |-> "to_dict_as_version", version |-> 0],
                [fn |-> "from_dict_to_current"]>>
    /\ val.v.version = 1
    /\ val.v.paramspecs = <<>>

\* C7: for a document of version 0 or 1, to_json_for_storage read back with
\* from_json_to_current and to_yaml_for_storage read back with
\* from_yaml_to_current give equal documents, and the two readers hand
\* from_dict_to_current equal plain dicts.
C7_CrossCodec ==
    (orig.kind = "desc" /\ orig.v.version \in {0, 1})
    => LET json_str == to_json_for_storage(orig.v, 1)
           yaml_str == to_yaml_for_storage(orig.v, 1)
       IN  /\ Began(<<[fn |-> "to_json_for_storage"],
                      [fn |-> "from_json_to_current"]>>)
              => /\ exc = "None"
                 /\ yaml_str.exc = "None"
                 /\ Len(hist) = 2
                    => /\ from_yaml_to_current(yaml_str.ret, 1).exc = "None"
                       /\ Fields(val.v) =
                          Fields(from_yaml_to_current(yaml_str.ret, 1).ret)
                       /\ json_loads(arg.v) = dict(yaml_load(yaml_str.ret))
           /\ Began(<<[fn |-> "to_yaml_for_storage"],
                      [fn |-> "from_yaml_to_current"]>>)
              => /\ exc = "None"
                 /\ json_str.exc = "None"
                 /\ Len(hist) = 2
                    => /\ from_json_to_current(json_str.ret, 1).exc = "None"
                       /\ Fields(val.v) =
                          Fields(from_json_to_current(json_str.ret, 1).ret)
                       /\ dict(yaml_load(arg.v)) = json_loads(json_str.ret)

C7_Witness ==
    /\ orig.kind = "desc"
    /\ orig.v.version = 1
    /\ orig.v.paramspecs # <<>>
    /\ hist = <<[fn |-> "to_yaml_for_storage"],
                [fn |-> "from_yaml_to_current"]>>
    /\ exc = "None"

\* C8: _converters has an entry (v, v) for v = 0 and v = 1 that returns its
\* argument itself, the same object and no copy; so
\* to_dict_as_version(doc, doc.version) creates no document and returns
\* doc._to_dict(), and from_dict_to_current on a version-1 mapping returns
\* the very document from_dict_to_native builds for it, the only object the
\* call creates.
C8_IdentityEntries ==
    /\ \A v \in {0, 1} :
          /\ <<v, v>> \in DOMAIN _converters
          /\ (val.kind = "desc" /\ val.v.version = v)
             => Apply(_converters[<<v, v>>], val.v, heap) = val.v
    /\ (/\ hist # <<>>
        /\ Last.fn = "to_dict_as_version"
        /\ arg.v.version \in {0, 1}
        /\ Last.version = arg.v.version)
       => /\ exc = "None"
          /\ val.v = _to_dict(arg.v)
          /\ created = 0
    /\ LastCallOn({"from_dict_to_current"},
                  {dct \in KnownDicts : dct["version"] = 1})
       => /\ exc = "None"
          /\ created = 1
          /\ val.v = from_dict_to_native(arg.v, heap - 1).ret

C8_Witness ==
    /\ LastCallOn({"from_dict_to_current"},
                  {dct \in KnownDicts : dct["version"] = 1})
    /\ created = 1
    /\ val.v.oid = heap - 1

(***************************************************************************)
(*                  The claims about KeysightB1517A.py                     *)
(***************************************************************************)
\* What a call of an output setter must do, seen as a step of the driver:
\* `cls` is the setter's own kind of output range, `other` the opposite
\* kind, `cmd` the command it writes.
SetterStep(setter, cls, other, cmd) ==
    call'.name = setter
    => /\ _source_config.output_range = None
          => /\ _source_config'.output_range = Enum(cls, "AUTO")
             /\ raised' = "None"
       /\ isinstance(_source_config.output_range, other)
          => /\ raised' = "TypeError"
             /\ written' = <<>>
             /\ _source_config' = _source_config
       /\ raised' = "None"
          => /\ Len(written') = 1
             /\ written'[1].cmd = cmd
             /\ isinstance(_source_config'.output_range, cls)

\* C9: whatever source_config, _set_voltage and _set_current calls were
\* made, a DV command is written only with a voltage output range stored in
\* _source_config and a DI command only with a current output range stored.
\* A setter called while output_range is None stores its own kind's AUTO
\* range; from then on the opposite setter raises TypeError, writes nothing
\* and leaves _source_config as it is, and only a source_config call with an
\* output range of the other kind changes the kind stored.
C9_ForceMatchesRange ==
    [][/\ \A i \in DOMAIN written' :
             /\ written'[i].cmd = "DV"
                => /\ isinstance(_source_config'.output_range, "VOutputRange")
                   /\ written'[i].v_range = _source_config'.output_range
             /\ written'[i].cmd = "DI"
                => /\ isinstance(_source_config'.output_range, "IOutputRange")
                   /\ written'[i].i_range = _source_config'.output_range
       /\ SetterStep("_set_voltage", "VOutputRange", "IOutputRange", "DV")
       /\ SetterStep("_set_current", "IOutputRange", "VOutputRange", "DI")
       /\ (/\ _source_config.output_range # None
           /\ type(_source_config'.output_range)
              # type(_source_config.output_range))
          => /\ call'.name = "source_config"
             /\ raised' = "None"
             /\ type(call'.output_range) = type(_source_config'.output_range)
      ]_vars

C9_Witness ==
    /\ call.name = "_set_current"
    /\ raised = "TypeError"
    /\ written = <<>>
    /\ _source_config = [output_range |-> Enum("VOutputRange", "AUTO"),
                         compliance |-> None, compl_polarity |-> None,
                         min_compliance_range |-> None]

\* C10: timing_parameters validates the interval before anything else: a
\* call with an interval outside [0.0001, 65.535] raises, leaves
\* _timing_parameters as it was and writes no MT command.  And
\* _get_number_of_samples, _total_measurement_time and _get_time_axis raise
\* 'set timing parameters first' when called before the first successful
\* timing_parameters call, and do not raise when called after one.
C10_TimingValidatedFirst ==
    [][/\ (/\ call'.name = "timing_parameters"
           /\ ~(/\ IntervalMin <= call'.interval.value
                /\ call'.interval.value <= IntervalMax))
          => /\ raised' # "None"
             /\ _timing_parameters' = _timing_parameters
             /\ timing_set' = timing_set
             /\ written' = <<>>
       /\ call'.name \in {"_get_number_of_samples",
                          "_total_measurement_time", "_get_time_axis"}
          => /\ ~timing_set => raised' = NotSetError
             /\ timing_set => raised' = "None"
       /\ (call'.name = "timing_parameters" /\ raised' = "None")
          => /\ timing_set'
             /\ written'[1].cmd = "MT"
             /\ _timing_parameters'.interval = call'.interval
      ]_vars

C10_Witness ==
    /\ timing_set
    /\ call.name = "timing_parameters"
    /\ call.interval = Float(IntervalMax + 1)
    /\ raised = "ValueError"
    /\ _timing_parameters.interval = Float(20)

=============================================================================
